---- MODULE Spec2Model ----
(***************************************************************************)
(* Training / validation core of the image-captioning repository:          *)
(*   codes/utils.py                    model_training_validation,          *)
(*                                     train_step, validation_step         *)
(*   codes/bahdanau_attention_model.py decoder initial recurrent state     *)
(*                                                                         *)
(* The specifications share the variables:                                 *)
(*   Spec          the epoch loop of model_training_validation, one action *)
(*                 per batch and per end of epoch;                         *)
(*   SpecScenario  the same loop fed with a fixed sequence of per-epoch    *)
(*                 validation losses;                                      *)
(*   SpecCheckpoints  the same loop where any epoch may improve on all     *)
(*                 earlier ones;                                           *)
(*   SpecStep      train_step / validation_step unrolled timestep by       *)
(*                 timestep over a sequence of batches.                    *)
(***************************************************************************)
EXTENDS Integers, Sequences, FiniteSets, TLC

VARIABLES
    \* ---- model_training_validation ----
    parameters,               \* the configuration dictionary
    pc,                       \* position in model_training_validation
    epoch,                    \* loop variable of `for epoch in range(...)`
    batch,                    \* number of batches taken in the running inner loop
    train_loss,               \* tf.keras.metrics.Mean  [total, count]
    validation_loss,          \* tf.keras.metrics.Mean  [total, count]
    encoder,                  \* encoder trainable variables (number of updates applied)
    decoder,                  \* decoder trainable variables (number of updates applied)
    optimizer,                \* optimizer state (iterations)
    split_history_dataframe,  \* rows (epochs, train_loss, validation_loss)
    split_history_csv,        \* contents of split_history.csv on disk
    checkpoint_count,         \* epochs without improvement
    best_validation_loss,     \* None or the text of the best rounded loss
    manager,                  \* checkpoints retained by the CheckpointManager
    save_counter,             \* checkpoint.save_counter
    validation_feed,          \* per epoch, the validation batch losses the data can give
    \* ---- train_step / validation_step ----
    step_pc,                  \* "idle" or "decoding"
    step_fn,                  \* "train_step" or "validation_step"
    target_batch,             \* captions of the batch, batch_size x L token indices
    i,                        \* loop variable of `for i in range(1, target_batch.shape[1])`
    loss,                     \* accumulated loss of the running step
    decoder_hidden_states,    \* [hidden_state_h, hidden_state_c]
    decoder_input_batch,      \* decoder input of the next timestep
    encoder_calls,            \* the encoder calls of the last started step, in order
    decoder_calls,            \* the decoder calls of the last started step, in order
    batch_loss,               \* the batch loss the last finished step fed to its metric
    calls,                    \* number of steps started
    \* ---- the process and model_testing ----
    module_globals,           \* the names bound at module level among encoder, decoder,
                              \* train_loss, validation_loss
    test_parameters,          \* the configuration dictionary given to model_testing
    stored_checkpoints,       \* checkpoints earlier processes left in the directory of
                              \* test_parameters
    test_encoder,             \* local `encoder` of model_testing
    test_decoder,             \* local `decoder` of model_testing
    test_log,                 \* the validation_step calls made by model_testing
    reported,                 \* None or the text printed as Test Loss
    \* ---- loss_function ----
    actual_values,            \* target tokens of one timestep, one per sequence
    current_loss,             \* per-sequence loss: loss_object's values, then masked
    returned_loss             \* None or the value loss_function returned

loopvars == <<parameters, pc, epoch, batch, split_history_dataframe, split_history_csv,
              checkpoint_count, best_validation_loss, manager, save_counter, validation_feed>>
loopvars_but_pc == <<parameters, epoch, batch, split_history_dataframe, split_history_csv,
                     checkpoint_count, best_validation_loss, manager, save_counter,
                     validation_feed>>
modelvars == <<train_loss, validation_loss, encoder, decoder, optimizer>>
stepvars == <<step_pc, step_fn, target_batch, i, loss, decoder_hidden_states,
              decoder_input_batch, encoder_calls, decoder_calls, batch_loss, calls>>
testvars == <<module_globals, test_parameters, stored_checkpoints, test_encoder, test_decoder,
              test_log, reported>>
lossvars == <<actual_values, current_loss, returned_loss>>
vars == <<loopvars, modelvars, stepvars, testvars, lossvars>>

-----------------------------------------------------------------------------
(* Bounds of the model *)

\* largest value of parameters['epochs']
MaxEpochs == 9
\* largest value of train_steps_per_epoch (and of validation_steps_per_epoch
\* where the validation losses are fixed by a scenario)
MaxStepsPerEpoch == 2
\* largest caption length L (target_batch.shape[1])
MaxCaptionLen == 3
\* largest number of train_step / validation_step calls in a run of steps
MaxCalls == 2
\* largest value of parameters['epochs'] in the runs of a whole process
MaxRunEpochs == 2
\* largest value of parameters['test_steps_per_epoch']
MaxTestSteps == 2
\* largest batch size and largest token index where loss_function is looked at
\* on its own
MaxBatchSize == 3
MaxToken == 2

-----------------------------------------------------------------------------
(* Exact rational arithmetic for the float losses *)

RECURSIVE GCD(_, _)
GCD(a, b) == IF b = 0 THEN a ELSE GCD(b, a % b)

\* the rational n/d in lowest terms (d > 0, n >= 0)
Rat(n, d) == LET g == GCD(n, d) IN [num |-> n \div g, den |-> d \div g]

RatAdd(x, y) == Rat(x.num * y.den + y.num * x.den, x.den * y.den)

RatDivInt(x, k) == Rat(x.num, x.den * k)

RatLess(x, y) == x.num * y.den < y.num * x.den

Zero == Rat(0, 1)

-----------------------------------------------------------------------------
(* tf.keras.metrics.Mean *)

Mean == [total |-> Zero, count |-> 0]

\* metric(value): accumulate one value
MeanUpdate(m, value) == [total |-> RatAdd(m.total, value), count |-> m.count + 1]

\* metric.result(): total / count, 0 when nothing was accumulated
MeanResult(m) == IF m.count = 0 THEN Zero ELSE RatDivInt(m.total, m.count)

-----------------------------------------------------------------------------
(* str(round(x, 3)): the text of a loss rounded to 3 decimals.  Texts are   *)
(* sequences of character codes ("." is 46, "0".."9" are 48..57).           *)

\* round(x, 3) in thousandths, ties to even
Round3(x) ==
    LET n == x.num * 1000
        q == n \div x.den
        r == n % x.den
    IN  IF 2 * r > x.den THEN q + 1
        ELSE IF 2 * r < x.den THEN q
        ELSE IF q % 2 = 0 THEN q ELSE q + 1

RECURSIVE Digits(_)
Digits(n) == IF n < 10 THEN <<48 + n>> ELSE Digits(n \div 10) \o <<48 + (n % 10)>>

\* str() of a float that is t thousandths: shortest decimal text, at least one
\* fractional digit ("1.0", "0.9", "0.95", "10.0", "0.633")
StrThousandths(t) ==
    LET f  == t % 1000
        d1 == f \div 100
        d2 == (f \div 10) % 10
        d3 == f % 10
        frac == IF d3 # 0 THEN <<48 + d1, 48 + d2, 48 + d3>>
                ELSE IF d2 # 0 THEN <<48 + d1, 48 + d2>>
                ELSE <<48 + d1>>
    IN  Digits(t \div 1000) \o <<46>> \o frac

\* str(round(metric.result().numpy(), 3))
StrRound3(m) == StrThousandths(Round3(MeanResult(m)))

\* a > b on Python strings: by code point, a proper prefix is smaller
RECURSIVE StrGreater(_, _)
StrGreater(a, b) ==
    IF a = <<>> THEN FALSE
    ELSE IF b = <<>> THEN TRUE
    ELSE IF Head(a) # Head(b) THEN Head(a) > Head(b)
    ELSE StrGreater(Tail(a), Tail(b))

None == <<>>

-----------------------------------------------------------------------------
(* Checkpoint manager *)

max_to_keep == 3

\* tf.train.Checkpoint(optimizer, encoder, decoder) written as checkpoint `number`
Snapshot(number) ==
    [number |-> number, encoder |-> encoder, decoder |-> decoder, optimizer |-> optimizer]

Sweep_KeepsOldest(kept) ==
    IF Len(kept) > max_to_keep THEN SubSeq(kept, 1, max_to_keep) ELSE kept

\* the retained list after one more checkpoint: the oldest are deleted while more
\* than max_to_keep are kept
Sweep(kept) ==
    IF Len(kept) > max_to_keep
    THEN SubSeq(kept, Len(kept) - max_to_keep + 1, Len(kept))
    ELSE kept

\* manager.save()
ManagerSave ==
    /\ save_counter' = save_counter + 1
    /\ manager' = Sweep(Append(manager, Snapshot(save_counter + 1)))

-----------------------------------------------------------------------------
(* Inputs of the epoch loop *)

\* batch losses a validation step may feed to its metric (opaque numeric results):
\* 0.9496, 9.0, 10.0
LossValues == {Rat(9496, 10000), Rat(9, 1), Rat(10, 1)}

\* batch losses a training step may feed to its metric
TrainLossValues == {Rat(2, 1)}

\* the validation losses 1.0, 0.9, 0.95, 0.95, 0.95, 0.95, 0.95, 0.95
EarlyStoppingScenario ==
    <<Rat(1, 1), Rat(9, 10), Rat(95, 100), Rat(95, 100), Rat(95, 100), Rat(95, 100),
      Rat(95, 100), Rat(95, 100)>>

\* one loss per epoch that improves on every earlier one, or 9.0
ImprovingFeed == [k \in 1..MaxEpochs |-> {Rat(MaxEpochs + 1 - k, 100), Rat(9, 1)}]

\* the batch losses the validation batches of the running epoch may produce
ObservedValidationLosses ==
    IF epoch + 1 <= Len(validation_feed) THEN validation_feed[epoch + 1] ELSE LossValues

\* values of parameters['start_token_index'] and parameters['rnn_size']
StartTokens == {1}
RnnSizes == {3}

-----------------------------------------------------------------------------
(* model_training_validation *)

\* `best_validation_loss > str(round(validation_loss.result().numpy(), 3))`
Improved(best, current) == StrGreater(best, current)

StaleAllowed_OneFewer(count) == count < 4

\* `checkpoint_count <= 4`
StaleAllowed(count) == count <= 4

\* the whole of train_step, seen from the epoch loop: one optimizer update of the
\* encoder and decoder variables, one value fed to train_loss
TrainStepEffect(value) ==
    /\ encoder' = encoder + 1
    /\ decoder' = decoder + 1
    /\ optimizer' = optimizer + 1
    /\ train_loss' = MeanUpdate(train_loss, value)
    /\ UNCHANGED validation_loss

\* the whole of validation_step, seen from the epoch loop
ValidationStepEffect(value) ==
    /\ validation_loss' = MeanUpdate(validation_loss, value)
    /\ UNCHANGED <<encoder, decoder, optimizer, train_loss>>

\* `for epoch in range(parameters['epochs'])`: next epoch, metrics reset
EpochStart ==
    /\ pc = "loop"
    /\ epoch < parameters.epochs
    /\ train_loss' = Mean
    /\ validation_loss' = Mean
    /\ batch' = 0
    /\ pc' = "train"
    /\ UNCHANGED <<parameters, epoch, split_history_dataframe, split_history_csv,
                   checkpoint_count, best_validation_loss, manager, save_counter, validation_feed>>
    /\ UNCHANGED <<encoder, decoder, optimizer>>
    /\ UNCHANGED stepvars
    /\ UNCHANGED testvars
    /\ UNCHANGED lossvars

\* the range is exhausted
LoopExit ==
    /\ pc = "loop"
    /\ epoch = parameters.epochs
    /\ pc' = "done"
    /\ UNCHANGED <<parameters, epoch, batch, split_history_dataframe, split_history_csv,
                   checkpoint_count, best_validation_loss, manager, save_counter, validation_feed>>
    /\ UNCHANGED modelvars
    /\ UNCHANGED stepvars
    /\ UNCHANGED testvars
    /\ UNCHANGED lossvars

\* one batch of `train_dataset.take(parameters['train_steps_per_epoch'])`
TrainBatch ==
    /\ pc = "train"
    /\ batch < parameters.train_steps_per_epoch
    /\ \E value \in TrainLossValues : TrainStepEffect(value)
    /\ batch' = batch + 1
    /\ UNCHANGED <<parameters, pc, epoch, split_history_dataframe, split_history_csv,
                   checkpoint_count, best_validation_loss, manager, save_counter, validation_feed>>
    /\ UNCHANGED stepvars
    /\ UNCHANGED testvars
    /\ UNCHANGED lossvars

\* the training batches are exhausted
TrainDone ==
    /\ pc = "train"
    /\ batch = parameters.train_steps_per_epoch
    /\ pc' = "validate"
    /\ batch' = 0
    /\ UNCHANGED <<parameters, epoch, split_history_dataframe, split_history_csv,
                   checkpoint_count, best_validation_loss, manager, save_counter, validation_feed>>
    /\ UNCHANGED modelvars
    /\ UNCHANGED stepvars
    /\ UNCHANGED testvars
    /\ UNCHANGED lossvars

\* one batch of `validation_dataset.take(parameters['validation_steps_per_epoch'])`
ValidationBatch ==
    /\ pc = "validate"
    /\ batch < parameters.validation_steps_per_epoch
    /\ \E value \in ObservedValidationLosses : ValidationStepEffect(value)
    /\ batch' = batch + 1
    /\ UNCHANGED <<parameters, pc, epoch, split_history_dataframe, split_history_csv,
                   checkpoint_count, best_validation_loss, manager, save_counter, validation_feed>>
    /\ UNCHANGED stepvars
    /\ UNCHANGED testvars
    /\ UNCHANGED lossvars

\* best validation loss replaced, checkpoint saved, loop continues
SaveBest(current) ==
    /\ checkpoint_count' = 0
    /\ best_validation_loss' = current
    /\ ManagerSave
    /\ pc' = "loop"
    /\ epoch' = epoch + 1

\* no improvement: counted, nothing saved, loop continues
CountStale ==
    /\ checkpoint_count' = checkpoint_count + 1
    /\ pc' = "loop"
    /\ epoch' = epoch + 1
    /\ UNCHANGED <<best_validation_loss, manager, save_counter>>

\* `break`
StopTraining ==
    /\ pc' = "done"
    /\ UNCHANGED <<epoch, checkpoint_count, best_validation_loss, manager, save_counter>>

\* the checkpoint / early-stopping decision at the end of an epoch
CheckpointPolicy(current) ==
    IF best_validation_loss = None THEN SaveBest(current)
    ELSE IF Improved(best_validation_loss, current) THEN SaveBest(current)
    ELSE IF StaleAllowed(checkpoint_count) THEN CountStale
    ELSE StopTraining

\* the row appended to the history at the end of an epoch
HistoryRow ==
    [epochs |-> epoch + 1,
     train_loss |-> StrRound3(train_loss),
     validation_loss |-> StrRound3(validation_loss)]

DataFrameAppend_KeepsLastOnly(dataframe, row) == <<row>>

\* split_history_dataframe.append(history_dictionary, ignore_index=True)
DataFrameAppend(dataframe, row) == Append(dataframe, row)

\* end of an epoch: the validation batches are exhausted; history appended and
\* written, then the checkpoint / early-stopping decision
EpochEnd ==
    /\ pc = "validate"
    /\ batch = parameters.validation_steps_per_epoch
    /\ split_history_dataframe' = DataFrameAppend(split_history_dataframe, HistoryRow)
    /\ split_history_csv' = split_history_dataframe'
    /\ CheckpointPolicy(StrRound3(validation_loss))
    /\ UNCHANGED <<parameters, batch, validation_feed>>
    /\ UNCHANGED modelvars
    /\ UNCHANGED stepvars
    /\ UNCHANGED testvars
    /\ UNCHANGED lossvars

\* the step-level variables while only the epoch loop is modelled
StepIdle ==
    /\ step_pc = "idle"
    /\ step_fn = "none"
    /\ target_batch = <<>>
    /\ i = 0
    /\ loss = Zero
    /\ decoder_hidden_states = <<>>
    /\ decoder_input_batch = <<>>
    /\ encoder_calls = <<>>
    /\ decoder_calls = <<>>
    /\ batch_loss = Zero
    /\ calls = 0

\* the configuration dictionaries with the given choices
Parameters(attention_choice, model_number_choice, epochs_choice, train_steps_choice, validation_steps_choice) ==
    [attention : attention_choice,
     model_number : model_number_choice,
     epochs : epochs_choice,
     train_steps_per_epoch : train_steps_choice,
     validation_steps_per_epoch : validation_steps_choice,
     start_token_index : StartTokens,
     rnn_size : RnnSizes]

\* the names model_training_validation binds at module level
TrainingGlobals == {"encoder", "decoder", "train_loss", "validation_loss"}

\* model_testing has not been called
TestIdle ==
    /\ test_parameters = <<>>
    /\ stored_checkpoints = <<>>
    /\ test_encoder = None
    /\ test_decoder = None
    /\ test_log = <<>>
    /\ reported = None

\* loss_function is not being looked at on its own
LossIdle ==
    /\ actual_values = <<>>
    /\ current_loss = <<>>
    /\ returned_loss = None

\* state at the first evaluation of the `for epoch` loop, for a configuration of
\* model_choice
LoopState(model_choice, epochs_choice, train_steps_choice, validation_steps_choice, feed) ==
    /\ parameters \in Parameters({"bahdanau_attention"}, model_choice, epochs_choice,
                                 train_steps_choice, validation_steps_choice)
    /\ pc = "loop"
    /\ epoch = 0
    /\ batch = 0
    /\ train_loss = Mean
    /\ validation_loss = Mean
    /\ encoder = 0
    /\ decoder = 0
    /\ optimizer = 0
    /\ split_history_dataframe = <<>>
    /\ split_history_csv = <<>>
    /\ checkpoint_count = 0
    /\ best_validation_loss = None
    /\ manager = <<>>
    /\ save_counter = 0
    /\ validation_feed = feed
    /\ StepIdle
    /\ module_globals = TrainingGlobals
    /\ TestIdle
    /\ LossIdle

\* the same for the depth-1 Bahdanau decoder
LoopInit(epochs_choice, train_steps_choice, validation_steps_choice, feed) ==
    LoopState({1}, epochs_choice, train_steps_choice, validation_steps_choice, feed)

Init == LoopInit(1..MaxEpochs, 1..MaxStepsPerEpoch, {1}, <<>>)

Next ==
    \/ EpochStart
    \/ TrainBatch
    \/ TrainDone
    \/ ValidationBatch
    \/ EpochEnd
    \/ LoopExit

Spec == Init /\ [][Next]_vars

\* the runs of the early-stopping scenario
InitScenario ==
    LoopInit(1..MaxEpochs, 1..MaxStepsPerEpoch, 1..MaxStepsPerEpoch,
             [k \in 1..Len(EarlyStoppingScenario) |-> {EarlyStoppingScenario[k]}])

SpecScenario == InitScenario /\ [][Next]_vars

\* runs in which any epoch may improve on all earlier ones
InitCheckpoints == LoopInit(1..MaxEpochs, 1..MaxStepsPerEpoch, {1}, ImprovingFeed)

SpecCheckpoints == InitCheckpoints /\ [][Next]_vars

-----------------------------------------------------------------------------
(* choose_encoder_decoder, the entry of model_training_validation, and        *)
(* model_testing, in one process                                             *)

\* values of parameters['attention'] and parameters['model_number']
Attentions == {"bahdanau_attention", "luong_attention", "soft_attention"}
ModelNumbers == 0..4

DecoderClass_DefaultsToLast(params) ==
    IF params.attention = "bahdanau_attention" /\ params.model_number = 1
    THEN "BahdanauDecoder1"
    ELSE IF params.attention = "bahdanau_attention" /\ params.model_number = 2
    THEN "BahdanauDecoder2"
    ELSE IF params.attention = "bahdanau_attention" /\ params.model_number = 3
    THEN "BahdanauDecoder3"
    ELSE IF params.attention = "luong_attention" /\ params.model_number = 1
    THEN "LuongDecoder1"
    ELSE IF params.attention = "luong_attention" /\ params.model_number = 2
    THEN "LuongDecoder2"
    ELSE "LuongDecoder3"

\* the decoder class choose_encoder_decoder instantiates, or its sys.exit()
DecoderClass(params) ==
    IF params.attention = "bahdanau_attention" /\ params.model_number = 1
    THEN "BahdanauDecoder1"
    ELSE IF params.attention = "bahdanau_attention" /\ params.model_number = 2
    THEN "BahdanauDecoder2"
    ELSE IF params.attention = "bahdanau_attention" /\ params.model_number = 3
    THEN "BahdanauDecoder3"
    ELSE IF params.attention = "luong_attention" /\ params.model_number = 1
    THEN "LuongDecoder1"
    ELSE IF params.attention = "luong_attention" /\ params.model_number = 2
    THEN "LuongDecoder2"
    ELSE IF params.attention = "luong_attention" /\ params.model_number = 3
    THEN "LuongDecoder3"
    ELSE "sys.exit"

\* a model object: the function that created it, its class, its variables (the
\* number of optimizer updates they went through) and the checkpoint they were
\* restored from (0: none)
Instance(created_in, class, weights, restored) ==
    [created_in |-> created_in, class |-> class, weights |-> weights, restored |-> restored]

\* the objects the module-level names `encoder` and `decoder` are bound to
GlobalEncoder == Instance("model_training_validation", "Encoder", encoder, 0)
GlobalDecoder == Instance("model_training_validation", DecoderClass(parameters), decoder, 0)

\* model_training_validation up to the `for epoch` loop: the metrics, then
\* choose_encoder_decoder, then optimizer, checkpoint manager and history
Setup ==
    /\ pc = "start"
    /\ IF DecoderClass(parameters) = "sys.exit"
       THEN /\ module_globals' = module_globals \cup {"train_loss", "validation_loss"}
            /\ pc' = "exited"
       ELSE /\ module_globals' = TrainingGlobals
            /\ pc' = "loop"
    /\ train_loss' = Mean
    /\ validation_loss' = Mean
    /\ encoder' = 0
    /\ decoder' = 0
    /\ optimizer' = 0
    /\ split_history_dataframe' = <<>>
    /\ checkpoint_count' = 0
    /\ best_validation_loss' = None
    /\ UNCHANGED <<parameters, epoch, batch, split_history_csv, manager, save_counter,
                   validation_feed>>
    /\ UNCHANGED stepvars
    /\ UNCHANGED <<test_parameters, stored_checkpoints, test_encoder, test_decoder, test_log,
                   reported>>
    /\ UNCHANGED lossvars

\* model_testing up to choose_encoder_decoder: the metric is rebound at module
\* level, the encoder and decoder are bound to local names; called in a process
\* that has called nothing yet or has returned from model_training_validation
TestingStart ==
    /\ pc \in {"start", "done"}
    /\ module_globals' = module_globals \cup {"validation_loss"}
    /\ validation_loss' = Mean
    /\ IF DecoderClass(test_parameters) = "sys.exit"
       THEN /\ pc' = "exited"
            /\ UNCHANGED <<test_encoder, test_decoder>>
       ELSE /\ pc' = "restore"
            /\ test_encoder' = Instance("model_testing", "Encoder", 0, 0)
            /\ test_decoder' = Instance("model_testing", DecoderClass(test_parameters), 0, 0)
    /\ UNCHANGED <<parameters, epoch, batch, split_history_dataframe, split_history_csv,
                   checkpoint_count, best_validation_loss, manager, save_counter,
                   validation_feed>>
    /\ UNCHANGED <<train_loss, encoder, decoder, optimizer>>
    /\ UNCHANGED stepvars
    /\ UNCHANGED <<test_parameters, stored_checkpoints, test_log, reported>>
    /\ UNCHANGED lossvars

\* the checkpoints in '../results/{attention}/model_{model_number}/checkpoints'
\* of test_parameters: those this process saved there, else those found there
CheckpointDirectory ==
    IF /\ "encoder" \in module_globals
       /\ test_parameters.attention = parameters.attention
       /\ test_parameters.model_number = parameters.model_number
    THEN manager
    ELSE stored_checkpoints

\* tf.train.latest_checkpoint(checkpoint_directory): None when there is none
latest_checkpoint(directory) ==
    IF directory = <<>> THEN None ELSE directory[Len(directory)]

\* checkpoint.restore(save_path) on Checkpoint(encoder=encoder, decoder=decoder):
\* with None nothing is restored and nothing is raised
Restore(instance, save_path, part) ==
    IF save_path = None THEN instance
    ELSE Instance(instance.created_in, instance.class, save_path[part], save_path.number)

\* model_testing: the checkpoint of the local encoder and decoder is restored
\* from the latest checkpoint of the directory
TestingRestore ==
    /\ pc = "restore"
    /\ LET save_path == latest_checkpoint(CheckpointDirectory)
       IN  /\ test_encoder' = Restore(test_encoder, save_path, "encoder")
           /\ test_decoder' = Restore(test_decoder, save_path, "decoder")
    /\ batch' = 0
    /\ pc' = "test"
    /\ UNCHANGED <<parameters, epoch, split_history_dataframe, split_history_csv,
                   checkpoint_count, best_validation_loss, manager, save_counter,
                   validation_feed>>
    /\ UNCHANGED modelvars
    /\ UNCHANGED stepvars
    /\ UNCHANGED <<module_globals, test_parameters, stored_checkpoints, test_log, reported>>
    /\ UNCHANGED lossvars

\* batch losses a validation step of model_testing may feed to the metric
TestLossValues == {Rat(9496, 10000), Rat(9, 1)}

\* one batch of `test_dataset.take(parameters['test_steps_per_epoch'])`:
\* validation_step reads the module-level names encoder and decoder, and raises
\* NameError where they are not bound
TestBatch ==
    /\ pc = "test"
    /\ batch < test_parameters.test_steps_per_epoch
    /\ IF {"encoder", "decoder"} \subseteq module_globals
       THEN /\ \E value \in TestLossValues : ValidationStepEffect(value)
            /\ test_log' = Append(test_log, [encoder |-> GlobalEncoder,
                                             decoder |-> GlobalDecoder])
            /\ batch' = batch + 1
            /\ pc' = "test"
       ELSE /\ pc' = "error"
            /\ UNCHANGED <<batch, test_log>>
            /\ UNCHANGED modelvars
    /\ UNCHANGED <<parameters, epoch, split_history_dataframe, split_history_csv,
                   checkpoint_count, best_validation_loss, manager, save_counter,
                   validation_feed>>
    /\ UNCHANGED stepvars
    /\ UNCHANGED <<module_globals, test_parameters, stored_checkpoints, test_encoder,
                   test_decoder, reported>>
    /\ UNCHANGED lossvars

\* print('Test Loss={}'.format(str(round(validation_loss.result().numpy(), 3))))
TestingReport ==
    /\ pc = "test"
    /\ batch = test_parameters.test_steps_per_epoch
    /\ reported' = StrRound3(validation_loss)
    /\ pc' = "reported"
    /\ UNCHANGED loopvars_but_pc
    /\ UNCHANGED modelvars
    /\ UNCHANGED stepvars
    /\ UNCHANGED <<module_globals, test_parameters, stored_checkpoints, test_encoder,
                   test_decoder, test_log>>
    /\ UNCHANGED lossvars

\* checkpoint directories an earlier process may have left for test_parameters
StoredCheckpoints ==
    {<<>>, <<[number |-> 1, encoder |-> 1, decoder |-> 1, optimizer |-> 1]>>}

\* a process that has called neither function yet
InitRun ==
    /\ parameters \in Parameters(Attentions, ModelNumbers, 1..MaxRunEpochs, {1}, {1})
    /\ pc = "start"
    /\ epoch = 0
    /\ batch = 0
    /\ train_loss = Mean
    /\ validation_loss = Mean
    /\ encoder = 0
    /\ decoder = 0
    /\ optimizer = 0
    /\ split_history_dataframe = <<>>
    /\ split_history_csv = <<>>
    /\ checkpoint_count = 0
    /\ best_validation_loss = None
    /\ manager = <<>>
    /\ save_counter = 0
    /\ validation_feed = <<>>
    /\ StepIdle
    /\ module_globals = {}
    /\ test_parameters \in [attention : Attentions,
                            model_number : ModelNumbers,
                            test_steps_per_epoch : 1..MaxTestSteps,
                            start_token_index : StartTokens,
                            rnn_size : RnnSizes]
    /\ stored_checkpoints \in StoredCheckpoints
    /\ test_encoder = None
    /\ test_decoder = None
    /\ test_log = <<>>
    /\ reported = None
    /\ LossIdle

NextRun ==
    \/ Setup
    \/ Next
    \/ TestingStart
    \/ TestingRestore
    \/ TestBatch
    \/ TestingReport

SpecRun == InitRun /\ [][NextRun]_vars

-----------------------------------------------------------------------------
(* Tensors and the decoder's recurrent state *)

\* a tensor of a shape; `data` names the computation that produced its values
Tensor(shape, data) == [shape |-> shape, data |-> data]

\* tf.zeros(shape)
Zeros(shape) == Tensor(shape, [call |-> 0, step |-> 0, layer |-> 0])

initialize_hidden_states_Carried(batch_size, rnn_size) ==
    IF decoder_hidden_states = <<>>
    THEN <<Zeros(<<batch_size, rnn_size>>), Zeros(<<batch_size, rnn_size>>)>>
    ELSE decoder_hidden_states

\* BahdanauDecoder1/2/3.initialize_hidden_states: [hidden_state_h, hidden_state_c]
initialize_hidden_states(batch_size, rnn_size) ==
    <<Zeros(<<batch_size, rnn_size>>), Zeros(<<batch_size, rnn_size>>)>>

-----------------------------------------------------------------------------
(* BahdanauAttention and BahdanauDecoder1/2/3.call *)

\* the state a tf.keras.layers.LSTM starts from when it is called without
\* initial_state (and is not stateful): zeros
LSTMInitialState(batch_size, rnn_size) ==
    <<Zeros(<<batch_size, rnn_size>>), Zeros(<<batch_size, rnn_size>>)>>

\* `x, hidden_state_h, hidden_state_c = self.rnn_layer_k(x)`: layer k of the
\* decoder call of timestep i, fed with the context vector concatenated to its
\* input; the layer is given no initial state
rnn_layer(layer, context_vector, batch_size, rnn_size) ==
    [layer |-> layer,
     context_vector |-> context_vector,
     initial_state |-> LSTMInitialState(batch_size, rnn_size),
     hidden_state_h |-> Tensor(<<batch_size, rnn_size>>,
                               [call |-> calls, step |-> i, layer |-> layer]),
     hidden_state_c |-> Tensor(<<batch_size, rnn_size>>,
                               [call |-> calls, step |-> i, layer |-> layer])]

\* self.attention_layer(encoder_out, hidden_state_h, hidden_state_c): one
\* invocation and the context vector it returns
attention_layer(hidden_state_h, hidden_state_c, invocation) ==
    [hidden_state_h |-> hidden_state_h,
     hidden_state_c |-> hidden_state_c,
     context_vector |-> [call |-> calls, step |-> i, invocation |-> invocation]]

AttentionCalls_PerLayer(hidden_states, depth) ==
    [k \in 1..depth |-> attention_layer(hidden_states[1], hidden_states[2], k)]

\* the attention invocations of one decoder call of a decoder of `depth` layers
AttentionCalls(hidden_states, depth) ==
    <<attention_layer(hidden_states[1], hidden_states[2], 1)>>

\* decoder(x, hidden_states, encoder_out, training) for the decoder of
\* parameters['model_number'] recurrent layers: what it was called with, the
\* attention and recurrent layer invocations it made, the state list it returns
BahdanauDecoder_call(x, hidden_states, training) ==
    LET depth == parameters.model_number
        attention == AttentionCalls(hidden_states, depth)
        context_vector == attention[1].context_vector
        rnn == [k \in 1..depth |->
                   rnn_layer(k, context_vector, Len(x), parameters.rnn_size)]
    IN  [x |-> x,
         hidden_states |-> hidden_states,
         training |-> training,
         attention |-> attention,
         rnn |-> rnn,
         returned |-> <<rnn[depth].hidden_state_h, rnn[depth].hidden_state_c>>]

\* the [hidden_state_h, hidden_state_c] a decoder call returns: the outputs of its
\* last LSTM(rnn_size) layer at this call
DecoderStates(decoder_call) == decoder_call.returned

-----------------------------------------------------------------------------
(* Inputs of train_step / validation_step *)

\* a caption of length L with nwords words after the leading start token, padded
\* with 0 at the end
Caption(L, nwords) ==
    [j \in 1..L |-> IF j = 1 THEN 1 ELSE IF j <= nwords + 1 THEN j ELSE 0]

\* target batches: 2 captions of one length L in 1..MaxCaptionLen
TargetBatches ==
    {<<Caption(L, n1), Caption(L, n2)>> :
        <<L, n1, n2>> \in {t \in (1..MaxCaptionLen) \X (0..MaxCaptionLen) \X (0..MaxCaptionLen) :
                              t[3] <= t[2] /\ t[2] < t[1]}}

\* values of the cross-entropy of one sequence at one timestep (opaque, positive)
CrossEntropyValues == {1, 2}

-----------------------------------------------------------------------------
(* loss_function *)

RECURSIVE SumSeq(_)
SumSeq(xs) == IF xs = <<>> THEN 0 ELSE Head(xs) + SumSeq(Tail(xs))

\* target_batch[:, j-1] of the code (columns are numbered from 1 here)
Column(target, j) == [b \in 1..Len(target) |-> target[b][j]]

Mask_PadsCounted(actual) == [b \in 1..Len(actual) |-> 1]

\* tf.cast(tf.math.logical_not(tf.math.equal(actual_values, 0)), dtype)
Mask(actual) == [b \in 1..Len(actual) |-> IF actual[b] = 0 THEN 0 ELSE 1]

\* `current_loss *= mask`
MaskedLoss(actual, cross_entropy) ==
    [b \in 1..Len(actual) |-> cross_entropy[b] * Mask(actual)[b]]

\* loss_function(actual_values, predicted_values), where cross_entropy is
\* loss_object(actual_values, predicted_values): masked, then reduce_mean
loss_function(actual, cross_entropy) ==
    Rat(SumSeq(MaskedLoss(actual, cross_entropy)), Len(actual))

\* one call of loss_function on the tokens and per-sequence losses at hand
LossCall ==
    /\ returned_loss = None
    /\ actual_values # <<>>
    /\ current_loss' = MaskedLoss(actual_values, current_loss)
    /\ returned_loss' = loss_function(actual_values, current_loss)
    /\ UNCHANGED actual_values
    /\ UNCHANGED <<loopvars, modelvars, stepvars, testvars>>

\* the target tokens of one timestep of a batch of 1..MaxBatchSize sequences and
\* the per-sequence cross-entropy of any predicted logits
InitLoss ==
    /\ \E batch_size \in 1..MaxBatchSize :
          /\ actual_values \in [1..batch_size -> 0..MaxToken]
          /\ current_loss \in [1..batch_size -> CrossEntropyValues]
    /\ returned_loss = None
    /\ parameters \in Parameters({"bahdanau_attention"}, {1}, {1}, {1}, {1})
    /\ pc = "loop"
    /\ epoch = 0
    /\ batch = 0
    /\ train_loss = Mean
    /\ validation_loss = Mean
    /\ encoder = 0
    /\ decoder = 0
    /\ optimizer = 0
    /\ split_history_dataframe = <<>>
    /\ split_history_csv = <<>>
    /\ checkpoint_count = 0
    /\ best_validation_loss = None
    /\ manager = <<>>
    /\ save_counter = 0
    /\ validation_feed = <<>>
    /\ StepIdle
    /\ module_globals = TrainingGlobals
    /\ TestIdle

NextLoss == LossCall

SpecLoss == InitLoss /\ [][NextLoss]_vars

-----------------------------------------------------------------------------
(* train_step / validation_step *)

TrainingFlag_AlwaysTrue(fn) == TRUE

\* the training flag the step passes to encoder and decoder
TrainingFlag(fn) == fn = "train_step"

\* tf.expand_dims([start_token_index] * target_batch.shape[0], 1)
FirstDecoderInput(target, start_token_index) ==
    [b \in 1..Len(target) |-> start_token_index]

NextDecoderInput_Lagging(target, step) == Column(target, step)

\* tf.expand_dims(target_batch[:, i], 1)
NextDecoderInput(target, step) == Column(target, step + 1)

\* the mean over the timesteps, where there is one
BatchLoss_PerTimestep(total, target) ==
    IF Len(target[1]) >= 2 THEN RatDivInt(total, Len(target[1]) - 1) ELSE total

\* loss / target_batch.shape[1]
BatchLoss(total, target) == RatDivInt(total, Len(target[1]))

\* optimizer.apply_gradients on the encoder and decoder variables
ApplyGradients ==
    /\ encoder' = encoder + 1
    /\ decoder' = decoder + 1
    /\ optimizer' = optimizer + 1

\* entry of a step up to the encoder call
StepStart(fn) ==
    /\ step_pc = "idle"
    /\ calls < MaxCalls
    /\ \E target \in TargetBatches :
        /\ target_batch' = target
        /\ decoder_hidden_states' = initialize_hidden_states(Len(target), parameters.rnn_size)
        /\ decoder_input_batch' = FirstDecoderInput(target, parameters.start_token_index)
    /\ step_fn' = fn
    /\ loss' = Zero
    /\ encoder_calls' = <<[training |-> TrainingFlag(fn)]>>
    /\ decoder_calls' = <<>>
    /\ i' = 1
    /\ calls' = calls + 1
    /\ step_pc' = "decoding"
    /\ UNCHANGED batch_loss
    /\ UNCHANGED modelvars
    /\ UNCHANGED loopvars
    /\ UNCHANGED testvars
    /\ UNCHANGED lossvars

\* one more batch of `train_dataset.take(parameters['train_steps_per_epoch'])`
TrainStepStart ==
    /\ train_loss.count < parameters.train_steps_per_epoch
    /\ StepStart("train_step")

\* one more batch of `validation_dataset.take(parameters['validation_steps_per_epoch'])`
ValidationStepStart ==
    /\ validation_loss.count < parameters.validation_steps_per_epoch
    /\ StepStart("validation_step")

LoopContinues_OneShort(step, L) == step < L - 1

\* `for i in range(1, target_batch.shape[1])`: i is in the range
LoopContinues(step, L) == step < L

\* one iteration of `for i in range(1, target_batch.shape[1])`
DecoderStep ==
    /\ step_pc = "decoding"
    /\ LoopContinues(i, Len(target_batch[1]))
    /\ \E cross_entropy \in [1..Len(target_batch) -> CrossEntropyValues] :
        LET timestep_loss == loss_function(Column(target_batch, i + 1), cross_entropy)
            decoder_call == BahdanauDecoder_call(decoder_input_batch, decoder_hidden_states,
                                                 TrainingFlag(step_fn))
        IN  /\ loss' = RatAdd(loss, timestep_loss)
            /\ decoder_calls' = Append(decoder_calls,
                                       [x |-> decoder_call.x,
                                        hidden_states |-> decoder_call.hidden_states,
                                        training |-> decoder_call.training,
                                        attention |-> decoder_call.attention,
                                        rnn |-> decoder_call.rnn,
                                        returned |-> decoder_call.returned,
                                        i |-> i,
                                        loss |-> timestep_loss])
            /\ decoder_hidden_states' = DecoderStates(decoder_call)
    /\ decoder_input_batch' = NextDecoderInput(target_batch, i)
    /\ i' = i + 1
    /\ UNCHANGED <<step_pc, step_fn, target_batch, encoder_calls, batch_loss, calls>>
    /\ UNCHANGED modelvars
    /\ UNCHANGED loopvars
    /\ UNCHANGED testvars
    /\ UNCHANGED lossvars

\* the loss the tape differentiates is the int 0 of `loss = 0` when the loop
\* body never ran: no gradient is provided for any variable
NoGradients == decoder_calls = <<>>

\* the end of train_step on captions of length 1: tape.gradient /
\* apply_gradients raise, the exception leaves train_step and the run
TrainStepRaise ==
    /\ step_pc = "decoding"
    /\ step_fn = "train_step"
    /\ ~LoopContinues(i, Len(target_batch[1]))
    /\ NoGradients
    /\ step_pc' = "raised"
    /\ UNCHANGED <<step_fn, target_batch, i, loss, decoder_hidden_states, decoder_input_batch,
                   encoder_calls, decoder_calls, batch_loss, calls>>
    /\ UNCHANGED modelvars
    /\ UNCHANGED loopvars
    /\ UNCHANGED testvars
    /\ UNCHANGED lossvars

\* the end of train_step: gradients applied, batch loss fed to train_loss
TrainStepFinish ==
    /\ step_pc = "decoding"
    /\ step_fn = "train_step"
    /\ ~LoopContinues(i, Len(target_batch[1]))
    /\ ~NoGradients
    /\ ApplyGradients
    /\ batch_loss' = BatchLoss(loss, target_batch)
    /\ train_loss' = MeanUpdate(train_loss, batch_loss')
    /\ step_pc' = "idle"
    /\ UNCHANGED validation_loss
    /\ UNCHANGED <<step_fn, target_batch, i, loss, decoder_hidden_states, decoder_input_batch,
                   encoder_calls, decoder_calls, calls>>
    /\ UNCHANGED loopvars
    /\ UNCHANGED testvars
    /\ UNCHANGED lossvars

\* the end of validation_step: batch loss fed to validation_loss
ValidationStepFinish ==
    /\ step_pc = "decoding"
    /\ step_fn = "validation_step"
    /\ ~LoopContinues(i, Len(target_batch[1]))
    /\ batch_loss' = BatchLoss(loss, target_batch)
    /\ validation_loss' = MeanUpdate(validation_loss, batch_loss')
    /\ step_pc' = "idle"
    /\ UNCHANGED <<train_loss, encoder, decoder, optimizer>>
    /\ UNCHANGED <<step_fn, target_batch, i, loss, decoder_hidden_states, decoder_input_batch,
                   encoder_calls, decoder_calls, calls>>
    /\ UNCHANGED loopvars
    /\ UNCHANGED testvars
    /\ UNCHANGED lossvars

\* a run of training and validation batches within an epoch
InitStep == LoopInit({1}, {MaxCalls}, {MaxCalls}, <<>>)

NextStep ==
    \/ TrainStepStart
    \/ ValidationStepStart
    \/ DecoderStep
    \/ TrainStepFinish
    \/ TrainStepRaise
    \/ ValidationStepFinish

SpecStep == InitStep /\ [][NextStep]_vars

\* one batch, given to train_step or to validation_step
InitUnroll ==
    \E train_steps \in {0, 1} :
        LoopInit({1}, {train_steps}, {1 - train_steps}, <<>>)

\* the runs of one step, where a step that has been started goes on: the process
\* is one thread that executes the next statement of the running step
SpecUnroll == InitUnroll /\ [][NextStep]_vars /\ WF_vars(NextStep)

\* one training batch and one validation batch, for the decoders of 1, 2 and 3
\* recurrent layers
InitDecoder == LoopState(1..3, {1}, {1}, {1}, <<>>)

SpecDecoder == InitDecoder /\ [][NextStep]_vars

-----------------------------------------------------------------------------
(* Vocabulary of the properties of the epoch loop *)

RECURSIVE DigitsValue(_)
DigitsValue(ds) ==
    IF ds = <<>> THEN 0
    ELSE DigitsValue(SubSeq(ds, 1, Len(ds) - 1)) * 10 + (ds[Len(ds)] - 48)

\* the number a loss text denotes, in thousandths
NumericValue(text) ==
    LET dot  == CHOOSE k \in 1..Len(text) : text[k] = 46
        frac == SubSeq(text, dot + 1, Len(text))
        pad  == IF Len(frac) = 1 THEN 100 ELSE IF Len(frac) = 2 THEN 10 ELSE 1
    IN  DigitsValue(SubSeq(text, 1, dot - 1)) * 1000 + DigitsValue(frac) * pad

\* the rounded validation loss of the epoch that is ending, as text
CurrentLoss == StrRound3(validation_loss)

\* the step taken is the end of an epoch
EndOfEpoch == Len(split_history_dataframe') = Len(split_history_dataframe) + 1

\* the step taken saves a checkpoint
Saved == save_counter' = save_counter + 1

\* the step taken breaks the epoch loop
Broken == pc = "validate" /\ pc' = "done"

\* the current loss is numerically less than best
NumericallyLess == NumericValue(CurrentLoss) < NumericValue(best_validation_loss)

\* the current loss text sorts before the text of best
TextuallyLess == StrGreater(best_validation_loss, CurrentLoss)

\* the rounded validation losses observed so far, in thousandths
ObservedLosses ==
    {NumericValue(split_history_dataframe[k].validation_loss) :
        k \in 1..Len(split_history_dataframe)}

\* the validation losses recorded so far are those of the early-stopping scenario
ScenarioObserved ==
    \A k \in 1..Len(split_history_dataframe) :
        /\ k <= Len(EarlyStoppingScenario)
        /\ split_history_dataframe[k].validation_loss
               = StrThousandths(Round3(EarlyStoppingScenario[k]))

-----------------------------------------------------------------------------
(* C1 *)

\* C1 (as stated): in the early-stopping scenario the 7th epoch is the last epoch
\* whose training and validation batches are run.
C1_LastEpochIs7 ==
    parameters.epochs >= 8 =>
        /\ pc \in {"train", "validate"} => epoch + 1 <= 7
        /\ pc = "done" => Len(split_history_dataframe) = 7

\* C1 (amended): in the early-stopping scenario, with max epochs >= 8, the 8th
\* epoch is the last epoch whose training and validation batches are run: the
\* loop is left at the end of epoch 8, with checkpoint_count = 5 reached at the
\* end of epoch 7.
C1_LastEpochIs8 ==
    /\ ScenarioObserved
    /\ parameters.epochs >= 8 =>
        /\ pc \in {"train", "validate"} => epoch + 1 <= 8
        /\ pc = "done" => /\ Len(split_history_dataframe) = 8
                          /\ epoch + 1 = 8
                          /\ checkpoint_count = 5
        /\ Len(split_history_dataframe) = 7 => pc # "done" /\ checkpoint_count = 5

\* the scenario was run to its end with epochs left
C1_Witness ==
    /\ pc = "done"
    /\ parameters.epochs > 8
    /\ Len(split_history_dataframe) = 8
    /\ ScenarioObserved
    /\ best_validation_loss = <<48, 46, 57>>

-----------------------------------------------------------------------------
(* C2 *)

\* C2: the epoch loop is broken exactly at the end of an epoch whose validation
\* loss is not (numerically) an improvement over best while checkpoint_count > 4,
\* and after the break nothing is run, appended or saved any more.
C2_BreakExactlyWhenStale ==
    [][/\ EndOfEpoch =>
            (Broken <=> /\ best_validation_loss # None
                        /\ ~NumericallyLess
                        /\ checkpoint_count > 4)
       /\ pc = "done" => UNCHANGED vars]_vars

\* the same with the losses compared as the texts they are kept as
C2_WithTextOrder ==
    [][/\ EndOfEpoch =>
            (Broken <=> /\ best_validation_loss # None
                        /\ ~TextuallyLess
                        /\ checkpoint_count > 4)
       /\ pc = "done" => UNCHANGED vars]_vars

-----------------------------------------------------------------------------
(* C3 *)

\* C3: a checkpoint is saved at the end of an epoch if and only if best is None or
\* the epoch's validation loss is (numerically) less than best; in both cases
\* best becomes the current loss and checkpoint_count becomes 0.
C3_SavedIffFirstOrLess ==
    [][EndOfEpoch =>
          /\ Saved <=> (best_validation_loss = None \/ NumericallyLess)
          /\ Saved => /\ best_validation_loss' = CurrentLoss
                      /\ checkpoint_count' = 0]_vars

\* the same with the losses compared as the texts they are kept as
C3_WithTextOrder ==
    [][EndOfEpoch =>
          /\ Saved <=> (best_validation_loss = None \/ TextuallyLess)
          /\ Saved => /\ best_validation_loss' = CurrentLoss
                      /\ checkpoint_count' = 0]_vars

-----------------------------------------------------------------------------
(* C4 *)

\* C4: at the end of an epoch whose validation loss does not (numerically) improve
\* on best, with checkpoint_count <= 4, checkpoint_count grows by exactly 1 and
\* best and the retained checkpoints are unchanged.
C4_StaleCounted ==
    [][(/\ EndOfEpoch
        /\ best_validation_loss # None
        /\ ~NumericallyLess
        /\ checkpoint_count <= 4)
       => /\ checkpoint_count' = checkpoint_count + 1
          /\ UNCHANGED <<best_validation_loss, manager, save_counter>>]_vars

\* the same with the losses compared as the texts they are kept as
C4_WithTextOrder ==
    [][(/\ EndOfEpoch
        /\ best_validation_loss # None
        /\ ~TextuallyLess
        /\ checkpoint_count <= 4)
       => /\ checkpoint_count' = checkpoint_count + 1
          /\ UNCHANGED <<best_validation_loss, manager, save_counter>>]_vars

-----------------------------------------------------------------------------
(* C5 *)

\* C5: after epoch 1, best is the numerically smallest rounded validation loss
\* observed so far.
C5_BestIsNumericMinimum ==
    split_history_dataframe # <<>> =>
        /\ best_validation_loss # None
        /\ NumericValue(best_validation_loss) \in ObservedLosses
        /\ \A v \in ObservedLosses : NumericValue(best_validation_loss) <= v

-----------------------------------------------------------------------------
(* C6 *)

\* C6: the manager retains at most 3 snapshots and they are the most recently
\* saved ones (numbers save_counter-2 .. save_counter, oldest first); a save made
\* while 3 are retained evicts the oldest.
C6_KeepsLastThree ==
    /\ [](/\ Len(manager) <= 3
          /\ Len(manager) = (IF save_counter < 3 THEN save_counter ELSE 3)
          /\ \A k \in 1..Len(manager) :
                manager[k].number = save_counter - Len(manager) + k)
    /\ [][(Saved /\ Len(manager) = 3) =>
             /\ Len(manager') = 3
             /\ SubSeq(manager', 1, 2) = Tail(manager)
             /\ manager'[3] = Snapshot(save_counter')]_vars

\* a fifth checkpoint has been saved: two evictions happened
C6_Witness == save_counter >= 5 /\ Len(manager) = 3 /\ manager[1].number = save_counter - 2

-----------------------------------------------------------------------------
(* Vocabulary of the properties of train_step / validation_step *)

\* caption length L of the running or last step
CaptionLen == Len(target_batch[1])

RECURSIVE SumLosses(_)
\* the sum of the per-timestep losses of the logged decoder calls
SumLosses(log) == IF log = <<>> THEN Zero ELSE RatAdd(Head(log).loss, SumLosses(Tail(log)))

\* the step taken is the end of a train_step or validation_step
StepFinished == step_pc = "decoding" /\ step_pc' = "idle"

\* the step taken feeds `value` to the loss metric of the running step
MetricFedWith(value) ==
    IF step_fn = "train_step"
    THEN train_loss' = MeanUpdate(train_loss, value)
    ELSE validation_loss' = MeanUpdate(validation_loss, value)

\* the zero recurrent state of the running step's batch
ZeroStates ==
    <<Zeros(<<Len(target_batch), parameters.rnn_size>>),
      Zeros(<<Len(target_batch), parameters.rnn_size>>)>>

-----------------------------------------------------------------------------
(* C7 *)

\* C7 (as stated): the batch loss fed to the running loss metric is the sum of
\* the L-1 per-timestep losses divided by L-1.
C7_DividedByTimesteps ==
    [][StepFinished =>
          /\ Len(decoder_calls) = CaptionLen - 1
          /\ CaptionLen >= 2 =>
                 MetricFedWith(RatDivInt(SumLosses(decoder_calls), CaptionLen - 1))]_vars

\* C7 (amended): the batch loss fed to the running loss metric is the sum of the
\* L-1 per-timestep losses divided by L, the caption length including the
\* leading token (target_batch.shape[1]).
C7_DividedByCaptionLen ==
    [][StepFinished =>
          /\ Len(decoder_calls) = CaptionLen - 1
          /\ loss = SumLosses(decoder_calls)
          /\ batch_loss' = RatDivInt(SumLosses(decoder_calls), CaptionLen)
          /\ MetricFedWith(RatDivInt(SumLosses(decoder_calls), CaptionLen))]_vars

\* a step over captions of length 3 has fed a positive batch loss: the sum of its
\* 2 timestep losses divided by 3
C7_Witness ==
    /\ step_pc = "idle"
    /\ calls >= 1
    /\ CaptionLen = 3
    /\ Len(decoder_calls) = 2
    /\ batch_loss # Zero
    /\ batch_loss = RatDivInt(SumLosses(decoder_calls), 3)
    /\ (train_loss.total = batch_loss \/ validation_loss.total = batch_loss)

-----------------------------------------------------------------------------
(* C8 *)

\* C8: in train_step the decoder input of the first timestep is the start token
\* for every sequence, and that of timestep k >= 2 is the ground-truth token of
\* timestep k-1 (target_batch[:, k-1]); the input pending for the next timestep
\* is ground truth as well.
C8_TeacherForcing ==
    step_fn = "train_step" =>
        /\ \A k \in 1..Len(decoder_calls) :
              decoder_calls[k].x =
                  IF k = 1
                  THEN [b \in 1..Len(target_batch) |-> parameters.start_token_index]
                  ELSE [b \in 1..Len(target_batch) |-> target_batch[b][k]]
        /\ (step_pc = "decoding" /\ i >= 2) =>
              decoder_input_batch = [b \in 1..Len(target_batch) |-> target_batch[b][i]]

\* a train_step has made its second decoder call and holds the input of a third,
\* on a batch whose ground truth differs from the start token and between
\* timesteps and sequences
C8_Witness ==
    /\ step_fn = "train_step"
    /\ Len(decoder_calls) = 2
    /\ decoder_calls[1].x = <<1, 1>>
    /\ decoder_calls[2].x = <<2, 0>>
    /\ decoder_input_batch = <<3, 0>>

-----------------------------------------------------------------------------
(* C9 *)

\* C9: validation_step leaves the encoder and decoder variables, the optimizer
\* state, the running training loss and the state of the epoch loop unchanged;
\* it changes the running validation loss only, when it ends; and it calls the
\* encoder and the decoder with the training flag false at every timestep.
C9_ValidationFrame ==
    /\ [](step_fn = "validation_step" =>
             /\ \A k \in 1..Len(encoder_calls) : encoder_calls[k].training = FALSE
             /\ \A k \in 1..Len(decoder_calls) : decoder_calls[k].training = FALSE)
    /\ [][step_fn' = "validation_step" =>
             /\ UNCHANGED <<encoder, decoder, optimizer, train_loss>>
             /\ UNCHANGED loopvars
             /\ IF StepFinished
                THEN validation_loss' = MeanUpdate(validation_loss, batch_loss')
                ELSE UNCHANGED validation_loss]_vars

\* a validation_step ended after a train_step had updated the variables
C9_Witness ==
    /\ step_pc = "idle"
    /\ step_fn = "validation_step"
    /\ Len(encoder_calls) = 1
    /\ Len(decoder_calls) >= 2
    /\ validation_loss.count = 1
    /\ train_loss.count = 1
    /\ encoder = 1 /\ decoder = 1 /\ optimizer = 1

-----------------------------------------------------------------------------
(* C10 *)

\* C10: every train_step and validation_step starts from the zero recurrent
\* state of shape (batch, rnn_size): it is the state on entry to the loop and the
\* state passed to the first decoder call, whatever state earlier steps ended in.
C10_ZeroInitialState ==
    /\ (step_pc = "decoding" /\ i = 1) => decoder_hidden_states = ZeroStates
    /\ decoder_calls # <<>> => decoder_calls[1].hidden_states = ZeroStates

\* a second step has started from zeros after the first ended in the state its
\* last decoder call returned
C10_Witness ==
    /\ calls = 2
    /\ step_pc = "decoding"
    /\ i = 1
    /\ train_loss.count + validation_loss.count = 1
    /\ decoder_hidden_states = ZeroStates
    /\ ZeroStates[1].shape = <<2, 3>>

-----------------------------------------------------------------------------
(* C11 *)

\* the number of recurrent layers of the configured decoder
Depth == parameters.model_number

\* C11: for every decoder depth N in {1,2,3}, initialize_hidden_states produces
\* N (hidden, cell) pairs, and every decoder step takes a state list of N pairs
\* and returns a state list of N pairs.
C11_OnePairPerLayer ==
    /\ step_pc = "decoding" => Len(decoder_hidden_states) = 2 * Depth
    /\ \A k \in 1..Len(decoder_calls) :
          /\ Len(decoder_calls[k].hidden_states) = 2 * Depth
          /\ Len(decoder_calls[k].returned) = 2 * Depth

\* what the decoders do instead: whatever the depth, the state list is the one
\* pair of the last recurrent layer
C11_OnePairOnly ==
    /\ step_pc = "decoding" => Len(decoder_hidden_states) = 2
    /\ \A k \in 1..Len(decoder_calls) :
          /\ Len(decoder_calls[k].hidden_states) = 2
          /\ Len(decoder_calls[k].rnn) = Depth
          /\ decoder_calls[k].returned = <<decoder_calls[k].rnn[Depth].hidden_state_h,
                                            decoder_calls[k].rnn[Depth].hidden_state_c>>

-----------------------------------------------------------------------------
(* C12 *)

\* C12: every validation_step that model_testing runs uses the encoder and
\* decoder objects created inside model_testing, with the variables restored from
\* the most recent checkpoint of the configuration's directory, and the reported
\* test loss covers at most test_steps_per_epoch batches.
C12_TestedRestoredInstances ==
    /\ \A k \in 1..Len(test_log) :
          /\ test_log[k].encoder = test_encoder
          /\ test_log[k].decoder = test_decoder
    /\ (pc \in {"test", "reported"} /\ CheckpointDirectory # <<>>) =>
          /\ test_encoder.restored = latest_checkpoint(CheckpointDirectory).number
          /\ test_decoder.restored = latest_checkpoint(CheckpointDirectory).number
    /\ pc = "reported" => Len(test_log) <= test_parameters.test_steps_per_epoch

\* what holds instead: the steps run on the objects model_training_validation
\* bound at module level, with whatever variables training left them
C12_TestedGlobals ==
    /\ \A k \in 1..Len(test_log) :
          /\ test_log[k].encoder = GlobalEncoder
          /\ test_log[k].decoder = GlobalDecoder
    /\ test_log # <<>> => "decoder" \in module_globals
    /\ pc = "reported" => Len(test_log) = test_parameters.test_steps_per_epoch

-----------------------------------------------------------------------------
(* C13 *)

\* C13: when model_testing finds no checkpoint in the configuration's checkpoint
\* directory the run fails: no validation step is run on a test batch and no
\* test loss is reported.
C13_NoCheckpointIsFatal ==
    (pc \in {"test", "error", "reported"} /\ CheckpointDirectory = <<>>) =>
        /\ test_log = <<>>
        /\ reported = None
        /\ pc # "reported"

\* what holds instead: without a checkpoint the objects of model_testing stay as
\* constructed, and the run fails only where encoder and decoder are not bound
\* at module level
C13_FailsOnlyUnbound ==
    /\ (pc \in {"test", "error", "reported"} /\ CheckpointDirectory = <<>>) =>
          test_encoder.restored = 0 /\ test_decoder.restored = 0
    /\ pc = "error" => /\ "decoder" \notin module_globals
                       /\ test_log = <<>>
                       /\ reported = None
    /\ pc = "reported" => /\ "decoder" \in module_globals
                          /\ Len(test_log) = test_parameters.test_steps_per_epoch

-----------------------------------------------------------------------------
(* C14 *)

\* the supported (attention, model_number) pairs
ValidPairs == {"bahdanau_attention", "luong_attention"} \X {1, 2, 3}

Invalid(params) == <<params.attention, params.model_number>> \notin ValidPairs

\* no training step, validation step, history write or checkpoint save has
\* happened
NothingTrained ==
    /\ train_loss = Mean /\ validation_loss = Mean
    /\ encoder = 0 /\ decoder = 0 /\ optimizer = 0
    /\ split_history_dataframe = <<>> /\ split_history_csv = <<>>
    /\ manager = <<>> /\ save_counter = 0
    /\ best_validation_loss = None

\* the step taken is the entry of model_training_validation
TrainingEntered == pc = "start" /\ "train_loss" \in module_globals'

\* the step taken is the entry of model_testing
TestingEntered ==
    /\ pc \in {"start", "done"}
    /\ pc' \in {"restore", "exited"}
    /\ "train_loss" \notin (module_globals' \ module_globals)

\* C14: for every (attention, model_number) pair outside
\* {bahdanau_attention, luong_attention} x {1,2,3} choose_encoder_decoder
\* terminates the process; in model_training_validation this happens before any
\* training step, validation step, history write or checkpoint save, and nothing
\* runs after it.
C14_InvalidConfigExits ==
    /\ [](Invalid(parameters) =>
             /\ pc \notin {"loop", "train", "validate", "done"}
             /\ NothingTrained)
    /\ [][/\ (TrainingEntered /\ Invalid(parameters)) => pc' = "exited"
          /\ (TrainingEntered /\ ~Invalid(parameters)) => pc' = "loop"
          /\ (TestingEntered /\ Invalid(test_parameters)) => pc' = "exited"
          /\ (TestingEntered /\ ~Invalid(test_parameters)) => pc' = "restore"
          /\ pc = "exited" => UNCHANGED vars]_vars

\* model_training_validation was entered with model_number 4 and the process
\* exited
C14_Witness ==
    /\ pc = "exited"
    /\ parameters.attention = "bahdanau_attention"
    /\ parameters.model_number = 4
    /\ "train_loss" \in module_globals
    /\ "encoder" \notin module_globals
    /\ NothingTrained

-----------------------------------------------------------------------------
(* C15 *)

\* the step taken ends an epoch: its validation batches are finished
ValidationFinished == pc = "validate" /\ pc' # "validate"

\* number of epochs whose validation batches have finished
EpochsFinished ==
    IF pc = "done" /\ epoch < parameters.epochs THEN epoch + 1 ELSE epoch

\* C15: the history is append-only and persisted every epoch: after the k-th
\* epoch's validation batches finish it holds exactly k rows with epochs 1..k in
\* order, earlier rows are never changed or removed, and the file holds the
\* same rows once the epoch's checkpoint / early-stopping decision is taken, the
\* epoch at which training stops early included.
C15_HistoryAppendOnly ==
    /\ [](/\ Len(split_history_dataframe) = EpochsFinished
          /\ \A k \in 1..Len(split_history_dataframe) :
                split_history_dataframe[k].epochs = k
          /\ split_history_csv = split_history_dataframe)
    /\ [][/\ Len(split_history_dataframe') >= Len(split_history_dataframe)
          /\ SubSeq(split_history_dataframe', 1, Len(split_history_dataframe))
                 = split_history_dataframe
          /\ SubSeq(split_history_csv', 1, Len(split_history_csv)) = split_history_csv
          /\ ValidationFinished =>
                /\ split_history_dataframe'
                       = Append(split_history_dataframe,
                                [epochs |-> epoch + 1,
                                 train_loss |-> StrRound3(train_loss),
                                 validation_loss |-> StrRound3(validation_loss)])
                /\ split_history_csv' = split_history_dataframe'
          /\ ~ValidationFinished => UNCHANGED <<split_history_dataframe, split_history_csv>>
         ]_vars

\* training stopped early at the end of epoch 7 and the file holds its row
C15_Witness ==
    /\ pc = "done"
    /\ epoch + 1 = 7
    /\ parameters.epochs > 7
    /\ Len(split_history_csv) = 7
    /\ split_history_csv[7].epochs = 7
    /\ split_history_csv[7].validation_loss = <<57, 46, 48>>
    /\ split_history_csv[1].validation_loss = <<49, 48, 46, 48>>

-----------------------------------------------------------------------------
(* C16 *)

\* the step taken is a call of loss_function
LossCalled == returned_loss = None /\ returned_loss' # None

\* every target token at hand is the pad value
AllPad == \A b \in 1..Len(actual_values) : actual_values[b] = 0

\* C16: loss_function returns 0 for a batch whose target tokens are all the pad
\* value 0, whatever the per-sequence cross-entropy of the predicted logits; in
\* general a position whose target is the pad value contributes 0 to the summed
\* loss and every other position contributes its cross-entropy.
C16_PadContributesNothing ==
    /\ [][LossCalled =>
             /\ \A b \in 1..Len(actual_values) :
                   current_loss'[b] = IF actual_values[b] = 0 THEN 0 ELSE current_loss[b]
             /\ returned_loss' = Rat(SumSeq(current_loss'), Len(actual_values))
             /\ AllPad => returned_loss' = Zero]_vars
    /\ []((returned_loss # None /\ AllPad) => returned_loss = Zero)

\* loss_function was called on three pad tokens, each with a positive
\* cross-entropy, and returned 0
C16_Witness ==
    /\ actual_values = <<0, 0, 0>>
    /\ current_loss = <<0, 0, 0>>
    /\ returned_loss = Zero

-----------------------------------------------------------------------------
(* C17 *)

\* C17: in the decoders of depth 2 and 3 the attention module is invoked exactly
\* once per decoder step, on the state list passed in, and the one context
\* vector it returns is the one concatenated to the input of every recurrent
\* layer 1..N of that step.
C17_OneContextPerStep ==
    Depth >= 2 =>
        \A k \in 1..Len(decoder_calls) :
            LET call == decoder_calls[k]
            IN  /\ Len(call.attention) = 1
                /\ call.attention[1].hidden_state_h = call.hidden_states[1]
                /\ call.attention[1].hidden_state_c = call.hidden_states[2]
                /\ Len(call.rnn) = Depth
                /\ \A layer \in 1..Depth :
                      /\ call.rnn[layer].layer = layer
                      /\ call.rnn[layer].context_vector = call.attention[1].context_vector

\* the depth-3 decoder has made its second call: three recurrent layers fed with
\* the context vector of that call's single attention invocation
C17_Witness ==
    /\ Depth = 3
    /\ Len(decoder_calls) = 2
    /\ Len(decoder_calls[2].rnn) = 3
    /\ Len(decoder_calls[2].attention) = 1
    /\ decoder_calls[2].rnn[3].context_vector = decoder_calls[2].attention[1].context_vector
    /\ decoder_calls[2].attention[1].context_vector
           # decoder_calls[1].attention[1].context_vector

-----------------------------------------------------------------------------
(* C18 *)

\* C18: within one sequence the recurrent state is carried between timesteps: the
\* state list a decoder call returns at timestep t is the one passed to the call
\* of timestep t+1, and it is the state the recurrent layer starts from there
\* (not only an input of the attention module).
C18_StateCarried ==
    \A k \in 1..Len(decoder_calls) :
        LET call == decoder_calls[k]
        IN  /\ k >= 2 => call.hidden_states = decoder_calls[k - 1].returned
            /\ call.rnn[Len(call.rnn)].initial_state = call.hidden_states

\* what holds instead: the state list is carried from call to call and given to
\* the attention module, while every recurrent layer of every call starts from
\* zeros
C18_CarriedToAttentionOnly ==
    \A k \in 1..Len(decoder_calls) :
        LET call == decoder_calls[k]
        IN  /\ k >= 2 => call.hidden_states = decoder_calls[k - 1].returned
            /\ call.attention[1].hidden_state_h = call.hidden_states[1]
            /\ call.attention[1].hidden_state_c = call.hidden_states[2]
            /\ \A layer \in 1..Len(call.rnn) : call.rnn[layer].initial_state = ZeroStates

-----------------------------------------------------------------------------
(* C19 *)

\* number of values the two loss metrics have been fed
MetricUpdates == train_loss.count + validation_loss.count

\* the decoder calls of the running or last step are those of caption positions
\* 1, 2, ... in increasing order, one accumulated loss each
CallsInOrder ==
    /\ \A k \in 1..Len(decoder_calls) : decoder_calls[k].i = k
    /\ loss = SumLosses(decoder_calls)

\* the running step has made the calls of positions 1..i-1 and has fed nothing to
\* its metric yet; a step that is over has made exactly L-1 calls
Unrolled ==
    /\ step_pc = "decoding" =>
          /\ i \in 1..CaptionLen
          /\ Len(decoder_calls) = i - 1
          /\ CallsInOrder
          /\ MetricUpdates = calls - 1
    /\ (step_pc = "idle" /\ calls >= 1) =>
          /\ Len(decoder_calls) = CaptionLen - 1
          /\ CallsInOrder

\* the metric of the running step is fed exactly when the step ends, the other
\* metric never
FedOnceAtTheEnd ==
    /\ StepFinished => /\ MetricFedWith(batch_loss')
                       /\ IF step_fn = "train_step"
                          THEN UNCHANGED validation_loss
                          ELSE UNCHANGED train_loss
    /\ ~StepFinished => UNCHANGED <<train_loss, validation_loss>>

\* C19 (as stated): for a target batch of caption length L >= 1, train_step and
\* validation_step each perform exactly L-1 decoder steps, for caption positions
\* 1..L-1 in increasing order, with one accumulated loss per step, then reach the
\* done state and update their loss metric exactly once; the unrolling always
\* terminates.
C19_UnrollsThenUpdatesOnce ==
    /\ [](/\ Unrolled
          /\ step_pc \in {"idle", "decoding"}
          /\ step_pc = "idle" => MetricUpdates = calls)
    /\ [][FedOnceAtTheEnd]_vars
    /\ (step_pc = "decoding") ~> (step_pc = "idle")

\* the step that is running can update its metric: it is a validation_step, or
\* a train_step on captions of length 2 or more
HasLossToDifferentiate == step_fn = "validation_step" \/ CaptionLen >= 2

\* C19 (amended): for a target batch of caption length L >= 2, train_step and
\* validation_step each perform exactly L-1 decoder steps, for caption positions
\* 1..L-1 in increasing order, with one accumulated loss per step, then reach the
\* done state and update their loss metric exactly once; for L = 1
\* validation_step performs no decoder step and updates its metric once, while
\* train_step performs no decoder step and raises without updating its metric;
\* the unrolling always terminates.
C19_UnrollsThenUpdatesOnceFromTwo ==
    /\ [](/\ Unrolled
          /\ step_pc \in {"idle", "decoding", "raised"}
          /\ step_pc = "idle" => MetricUpdates = calls
          /\ step_pc = "raised" => /\ ~HasLossToDifferentiate
                                   /\ decoder_calls = <<>>
                                   /\ MetricUpdates = calls - 1)
    /\ [][FedOnceAtTheEnd]_vars
    /\ (step_pc = "decoding" /\ HasLossToDifferentiate) ~> (step_pc = "idle")
    /\ (step_pc = "decoding" /\ ~HasLossToDifferentiate) ~> (step_pc = "raised")

\* a train_step over captions of length 3 has ended after its two decoder
\* calls, of positions 1 and 2, and has fed its metric once
C19_Witness ==
    /\ step_pc = "idle"
    /\ step_fn = "train_step"
    /\ calls = 1
    /\ CaptionLen = 3
    /\ Len(decoder_calls) = 2
    /\ decoder_calls[1].i = 1 /\ decoder_calls[2].i = 2
    /\ train_loss.count = 1 /\ validation_loss.count = 0

====
